---- MODULE Spec2Model ----
(***************************************************************************)
(* FontSnap: the font identification pipeline of the React application.    *)
(*                                                                         *)
(*   App.jsx            the orchestrator: currentStep 1..5 and run data    *)
(*   OcrProcessor.jsx   performOCR (Tesseract worker), edit, confirm, retry*)
(*   FontMatcher        the Google Fonts matcher (src/unnamed/part_006):   *)
(*                      fetchGoogleFonts, loadAllFonts, performFontMatching*)
(*   fontUtils.js       renderTextToCanvas / compareCanvasText             *)
(*                                                                         *)
(* A text is a sequence of one-character strings.  A similarity is the     *)
(* two-decimal score of compareCanvasText in hundredths (9240 = 92.40).    *)
(* React effects are run in the step that commits the state they depend    *)
(* on; a setState of a component that is no longer mounted does nothing.   *)
(***************************************************************************)
EXTENDS Integers, Sequences, FiniteSets, TLC

VARIABLES
    currentStep,     \* App: 1 Upload, 2 Crop, 3 Extract, 4 Match, 5 Results
    uploadedImage,   \* App: image url or NULL
    croppedImage,    \* App: image url or NULL
    extractedText,   \* App: confirmed text ("" = <<>>)
    fontMatches,     \* App: the matches handed to handleFontMatchingComplete
    isProcessing,    \* App: loading overlay flag
    apiKeySet,       \* build environment: VITE_GOOGLE_FONTS_API_KEY is set
    fontsAvail,      \* browser: font families whose resource is available
    ocrInst,         \* mounted OcrProcessor instance (0 = none)
    ocrText,         \* OcrProcessor.extractedText of the mounted instance
    ocrError,        \* OcrProcessor.error of the mounted instance
    ocrLocal,        \* OcrProcessor.isProcessing (local flag)
    ocrEditing,      \* OcrProcessor.isEditing
    ocrTasks,        \* performOCR invocations, in order of their start
    matcher,         \* mounted FontMatcher instance (0 = none)
    fm,              \* FontMatcher instances, in order of their mount
    rankIn,          \* ranking harness: the matches array before sort
    rankOut,         \* ranking harness: the array after sort and slice
    canvas1,         \* scoring harness: first argument of compareCanvasText
    canvas2,         \* scoring harness: second argument of compareCanvasText
    score12,         \* scoring harness: <<compareCanvasText(canvas1, canvas2)>>
    score21          \* scoring harness: <<compareCanvasText(canvas2, canvas1)>>

appVars == <<currentStep, uploadedImage, croppedImage, extractedText,
             fontMatches, isProcessing>>
ocrVars == <<ocrInst, ocrText, ocrError, ocrLocal, ocrEditing, ocrTasks>>
fmVars == <<matcher, fm, fontsAvail>>
rankVars == <<rankIn, rankOut>>
scoreVars == <<canvas1, canvas2, score12, score21>>
vars == <<appVars, apiKeySet, ocrVars, fmVars, rankVars, scoreVars>>

(***************************************************************************)
(* Bounds of the model.                                                    *)
(***************************************************************************)
\* asynchronous runs started in one behaviour: performOCR invocations plus
\* FontMatcher mounts
MaxRuns == 3

NULL == "null"
Images == {"img"}

(***************************************************************************)
(* Strings.                                                                *)
(***************************************************************************)
SP == " "
NL == "\n"
IsSpace(c) == c \in {SP, NL}

RECURSIVE TrimLeft(_)
TrimLeft(s) ==
    IF s # <<>> /\ IsSpace(Head(s)) THEN TrimLeft(Tail(s)) ELSE s

RECURSIVE TrimRight(_)
TrimRight(s) ==
    IF s # <<>> /\ IsSpace(s[Len(s)])
    THEN TrimRight(SubSeq(s, 1, Len(s) - 1)) ELSE s

\* String.prototype.trim
Trim(s) == TrimRight(TrimLeft(s))

\* replace(/\n+/g, ' '): every maximal run of newlines becomes one space
RECURSIVE ReplaceNewlines(_)
ReplaceNewlines(s) ==
    IF s = <<>> THEN <<>>
    ELSE IF Head(s) = NL
         THEN IF Len(s) > 1 /\ s[2] = NL
              THEN ReplaceNewlines(Tail(s))
              ELSE <<SP>> \o ReplaceNewlines(Tail(s))
         ELSE <<Head(s)>> \o ReplaceNewlines(Tail(s))

\* replace(/\s+/g, ' '): every maximal run of whitespace becomes one space
RECURSIVE CollapseSpaces(_)
CollapseSpaces(s) ==
    IF s = <<>> THEN <<>>
    ELSE IF IsSpace(Head(s))
         THEN IF Len(s) > 1 /\ IsSpace(s[2])
              THEN CollapseSpaces(Tail(s))
              ELSE <<SP>> \o CollapseSpaces(Tail(s))
         ELSE <<Head(s)>> \o CollapseSpaces(Tail(s))

\* OcrProcessor.jsx:69
CleanText(text) == CollapseSpaces(ReplaceNewlines(Trim(text)))

(***************************************************************************)
(* App.jsx: the orchestrator's handlers.  Each operator assigns the App    *)
(* state the handler sets; the action that calls it leaves the rest alone. *)
(***************************************************************************)
\* a reset that keeps the matches of the previous run
resetApp_KeepMatches ==
    /\ currentStep' = 1
    /\ uploadedImage' = NULL
    /\ croppedImage' = NULL
    /\ extractedText' = <<>>
    /\ fontMatches' = fontMatches
    /\ isProcessing' = FALSE

\* App.jsx:24-31
resetApp ==
    /\ currentStep' = 1
    /\ uploadedImage' = NULL
    /\ croppedImage' = NULL
    /\ extractedText' = <<>>
    /\ fontMatches' = <<>>
    /\ isProcessing' = FALSE

\* App.jsx:34-37
handleImageUpload(imageUrl) ==
    /\ uploadedImage' = imageUrl
    /\ currentStep' = 2

\* App.jsx:40-43
handleCropComplete(croppedImageUrl) ==
    /\ croppedImage' = croppedImageUrl
    /\ currentStep' = 3

\* App.jsx:46-49
handleOcrComplete(text) ==
    /\ extractedText' = text
    /\ currentStep' = 4

\* a completion handler that stores the matches but does not advance
handleFontMatchingComplete_NoAdvance(matches) ==
    /\ fontMatches' = matches
    /\ currentStep' = currentStep
    /\ isProcessing' = FALSE

\* App.jsx:52-56
handleFontMatchingComplete(matches) ==
    /\ fontMatches' = matches
    /\ currentStep' = 5
    /\ isProcessing' = FALSE

\* App.jsx:133-139: OcrProcessor is rendered
OcrMounted == ocrInst # 0

\* App.jsx:141-148: FontMatcher is rendered
MatcherMounted == matcher # 0

\* the local state of an OcrProcessor that is not rendered
OcrUnmount ==
    /\ ocrInst' = 0
    /\ ocrText' = <<>>
    /\ ocrError' = NULL
    /\ ocrLocal' = FALSE
    /\ ocrEditing' = FALSE

(***************************************************************************)
(* Google Fonts catalog (FontMatcher, src/unnamed/part_006).               *)
(***************************************************************************)
Digits == <<"0", "1", "2", "3", "4", "5", "6", "7", "8", "9">>
IsDigit(c) == c \in {Digits[d] : d \in 1..10}
DigitVal(c) == (CHOOSE d \in 1..10 : Digits[d] = c) - 1

\* /^[0-9]+$/.test(v)
AllDigits(v) == v # <<>> /\ \A i \in 1..Len(v) : IsDigit(v[i])

\* String.prototype.endsWith
EndsWith(v, suffix) ==
    /\ Len(v) >= Len(suffix)
    /\ SubSeq(v, Len(v) - Len(suffix) + 1, Len(v)) = suffix

RECURSIVE DigitPrefix(_, _)
DigitPrefix(v, acc) ==
    IF v # <<>> /\ IsDigit(Head(v))
    THEN DigitPrefix(Tail(v), acc * 10 + DigitVal(Head(v)))
    ELSE acc

\* parseInt(weight, 10): <<n>> for the leading digits of the string, <<>> for
\* NaN (no leading digit).  part_006:146
ParseInt(v) ==
    LET t == TrimLeft(v)
    IN  IF t # <<>> /\ IsDigit(Head(t)) THEN <<DigitPrefix(t, 0)>> ELSE <<>>

IsNaN(p) == p = <<>>

V_regular == <<"r", "e", "g", "u", "l", "a", "r">>
V_italic == <<"i", "t", "a", "l", "i", "c">>
V_400 == <<"4", "0", "0">>
V_700 == <<"7", "0", "0">>
V_700italic == <<"7", "0", "0", "i", "t", "a", "l", "i", "c">>
V_variable == <<"v", "a", "r">>

\* part_006:47: keep numeric weights, italic variants and 'regular'
KeepVariant(v) == AllDigits(v) \/ EndsWith(v, V_italic) \/ v = V_regular

\* part_006:48: normalize 'regular' to '400'
NormalizeVariant(v) == IF v = V_regular THEN V_400 ELSE v

\* part_006:46-48
Weights(variants) ==
    LET kept == SelectSeq(variants, KeepVariant)
    IN  [i \in 1..Len(kept) |-> NormalizeVariant(kept[i])]

\* Array.prototype.slice(0, n)
Slice(s, n) == SubSeq(s, 1, IF Len(s) < n THEN Len(s) ELSE n)

CatalogLimit == 20

\* part_006:43-49: the candidate list built from the API response
FontsOfResponse(data) ==
    LET items == Slice(data.items, CatalogLimit)
    IN  [i \in 1..Len(items) |->
            [name |-> items[i].family,
             family |-> items[i].family,
             weights |-> Weights(items[i].variants)]]

\* a fallback that stores no font at all
FallbackFonts_Empty == <<>>

\* part_006:30-34 and 54-58: the built-in list
FallbackFonts ==
    << [name |-> "Roboto", family |-> "Roboto", weights |-> <<V_400, V_700>>],
       [name |-> "Lato", family |-> "Lato", weights |-> <<V_400, V_700>>],
       [name |-> "Montserrat", family |-> "Montserrat",
        weights |-> <<V_400, V_700>>] >>

\* Responses of the webfonts API the model draws from.
RespPopular ==
    [items |-> << [family |-> "Roboto",
                   variants |-> <<V_regular, V_italic, V_700, V_700italic>>],
                  [family |-> "Open Sans",
                   variants |-> <<V_variable, V_regular>>] >>]

LongNames ==
    << "F01", "F02", "F03", "F04", "F05", "F06", "F07", "F08", "F09", "F10",
       "F11", "F12", "F13", "F14", "F15", "F16", "F17", "F18", "F19", "F20",
       "F21" >>

\* 21 families (one more than the code keeps); only F01, F11 and F21 have a
\* numeric weight
RespLong ==
    [items |-> [i \in 1..Len(LongNames) |->
        [family |-> LongNames[i],
         variants |-> IF i = 1 THEN <<V_regular>>
                      ELSE IF i = 11 THEN <<V_700>>
                      ELSE IF i = 21 THEN <<V_regular>>
                      ELSE <<V_italic>>]]]

RespItalicOnly ==
    [items |-> << [family |-> "Lobster", variants |-> <<V_italic>>] >>]

RespEmpty == [items |-> <<>>]

\* an error body: no items field
RespError == [error |-> "keyInvalid"]

Responses == {RespPopular, RespLong, RespItalicOnly, RespEmpty, RespError}

(***************************************************************************)
(* Ranking: matches.sort((a, b) => b.similarity - a.similarity)            *)
(*                 .slice(0, 3)                                            *)
(* Array.prototype.sort is stable (ECMAScript 2019): elements that compare *)
(* equal keep their order.                                                 *)
(***************************************************************************)
TopN == 3

\* an insertion that puts a match in front of the matches of equal similarity
InsertDesc_Unstable(m, sorted) ==
    SelectSeq(sorted, LAMBDA x : x.similarity > m.similarity)
    \o <<m>>
    \o SelectSeq(sorted, LAMBDA x : x.similarity <= m.similarity)

\* the place of the match m, which comes later in the array, among the
\* matches sorted so far: behind every match that does not compare greater
InsertDesc(m, sorted) ==
    SelectSeq(sorted, LAMBDA x : x.similarity >= m.similarity)
    \o <<m>>
    \o SelectSeq(sorted, LAMBDA x : x.similarity < m.similarity)

\* the first n matches of the array, sorted
RECURSIVE SortPrefix(_, _)
SortPrefix(matches, n) ==
    IF n = 0 THEN <<>>
    ELSE InsertDesc(matches[n], SortPrefix(matches, n - 1))

\* part_006:179: matches.sort((a, b) => b.similarity - a.similarity)
SortBySimilarity(matches) == SortPrefix(matches, Len(matches))

\* a ranking that forgets .slice(0, 3)
TopMatches_NoSlice(matches) == SortBySimilarity(matches)

\* part_006:179-181, FontMatcher.jsx:67-69
TopMatches(matches) == Slice(SortBySimilarity(matches), TopN)

(***************************************************************************)
(* The matching loop: for (font of availableFonts)                         *)
(*                      for (weight of font.weights)                       *)
(* A position of the loops is <<f, w>>: the w-th weight of the f-th font.  *)
(***************************************************************************)
LoopStart == <<0, 0>>
LoopEnd == <<0, 0>>

LoopPositions(fonts) ==
    UNION { {<<f, w>> : w \in 1..Len(fonts[f].weights)} : f \in 1..Len(fonts) }

\* the loops reach position p before position q
Before(p, q) == p[1] < q[1] \/ (p[1] = q[1] /\ p[2] < q[2])

\* part_006:146-147: the positions after pos that are not skipped by
\* `if (isNaN(parsedWeight)) continue`
TestedAfter(fonts, pos) ==
    {p \in LoopPositions(fonts) :
        /\ Before(pos, p)
        /\ ~IsNaN(ParseInt(fonts[p[1]].weights[p[2]]))}

\* the position of `later` the loops reach first, LoopEnd when there is none
FirstPosition(later) ==
    IF later = {} THEN LoopEnd
    ELSE CHOOSE p \in later : \A q \in later : p = q \/ Before(p, q)

\* the next position the loops test after pos
NextTested(fonts, pos) == FirstPosition(TestedAfter(fonts, pos))

\* part_006:149-153
FontToTest(font, weightStr) ==
    [name |-> <<font.name, weightStr>>,
     family |-> font.family,
     weight |-> ParseInt(weightStr)[1]]

\* part_006:158: availableFonts.reduce((acc, f) => acc + f.weights.length, 0)
TotalWeights(fonts) == Cardinality(LoopPositions(fonts))

\* part_006:158 (the percentage, rounded down to an integer)
Progress(testedCount, fonts) == (testedCount * 100) \div TotalWeights(fonts)

(***************************************************************************)
(* OcrProcessor.jsx                                                        *)
(***************************************************************************)
\* what worker.recognize can return: result.data.text and .confidence
OcrTexts == { <<>>, <<SP>>, <<"a">>, <<SP, "a", NL, NL, "b", NL>> }
Confidences == {50, 90}
LowConfidence == 70

\* messages of the errors createWorker and recognize can throw
MsgNoText == "No text was recognized in the image"
ThrownMessages ==
    {"network request failed", "language load failed", "worker crashed"}

\* errorMessage.includes(word), for the words the handler looks for
Includes(msg, word) ==
    CASE word = "network" -> msg = "network request failed"
      [] word = "fetch" -> FALSE
      [] word = "language" -> msg = "language load failed"
      [] word = "image" -> msg = MsgNoText
      [] OTHER -> FALSE

\* OcrProcessor.jsx:88-98
UserMessage(msg) ==
    IF Includes(msg, "network") \/ Includes(msg, "fetch")
    THEN "Failed to extract text. Network error."
    ELSE IF Includes(msg, "language")
    THEN "Failed to extract text. Language pack not available."
    ELSE IF Includes(msg, "image")
    THEN "Failed to extract text. Invalid or corrupted image."
    ELSE "Failed to extract text. Please try again with a clearer image."

LowConfidenceMessage == "Text recognition confidence is low"

IsCurrentOcr(t) == ocrInst # 0 /\ ocrTasks[t].inst = ocrInst

\* A performOCR invocation that has returned is kept only while its
\* OcrProcessor is rendered; afterwards nothing of it exists.
GoneTask == [inst |-> 0, pc |-> "gone", worker |-> FALSE, threw |-> FALSE]

OcrReturned(task) == task.pc \in {"resolved", "rejected", "gone"}

\* the invocations that remain when no OcrProcessor is rendered
OcrPending(tasks) ==
    [t \in DOMAIN tasks |-> IF OcrReturned(tasks[t]) THEN GoneTask ELSE tasks[t]]

\* a start of performOCR that leaves the previous message in place
StartOCR_KeepError(inst) ==
    /\ ocrTasks' = Append(ocrTasks,
           [inst |-> inst, pc |-> "createWorker", worker |-> FALSE, threw |-> FALSE])
    /\ ocrLocal' = TRUE
    /\ isProcessing' = TRUE
    /\ ocrError' = ocrError

\* OcrProcessor.jsx:21-34: performOCR up to its first await, called by the
\* instance inst
StartOCR(inst) ==
    /\ ocrTasks' = Append(ocrTasks,
           [inst |-> inst, pc |-> "createWorker", worker |-> FALSE, threw |-> FALSE])
    /\ ocrLocal' = TRUE
    /\ isProcessing' = TRUE
    /\ ocrError' = NULL

\* a finally block that clears only the component's own flag
OcrFinally_LocalOnly(t) ==
    /\ ocrLocal' = IF IsCurrentOcr(t) THEN FALSE ELSE ocrLocal
    /\ isProcessing' = isProcessing

\* OcrProcessor.jsx:108-109: the end of the finally block
OcrFinally(t) ==
    /\ ocrLocal' = IF IsCurrentOcr(t) THEN FALSE ELSE ocrLocal
    /\ isProcessing' = FALSE

\* ImageUploader: handleConfirmImage -> App.handleImageUpload
Upload(img) ==
    /\ currentStep = 1
    /\ handleImageUpload(img)
    /\ UNCHANGED <<croppedImage, extractedText, fontMatches, isProcessing>>
    /\ UNCHANGED <<apiKeySet, ocrVars, fmVars, rankVars, scoreVars>>

\* CropSelector: handleCropConfirm -> App.handleCropComplete; OcrProcessor
\* mounts and its effect (OcrProcessor.jsx:16-18) calls performOCR
Crop(url) ==
    /\ currentStep = 2
    /\ uploadedImage # NULL
    /\ Len(ocrTasks) + Len(fm) < MaxRuns
    /\ handleCropComplete(url)
    /\ ocrInst' = Len(ocrTasks) + 1
    /\ ocrText' = <<>>
    /\ ocrEditing' = FALSE
    /\ StartOCR(Len(ocrTasks) + 1)
    /\ UNCHANGED <<uploadedImage, extractedText, fontMatches>>
    /\ UNCHANGED <<apiKeySet, fmVars, rankVars, scoreVars>>

\* OcrProcessor.jsx:38: createWorker resolves
OcrWorkerCreated(t) ==
    /\ ocrTasks[t].pc = "createWorker"
    /\ ocrTasks' = [ocrTasks EXCEPT ![t].pc = "recognize", ![t].worker = TRUE]
    /\ UNCHANGED <<appVars, apiKeySet, ocrInst, ocrText, ocrError, ocrLocal,
                   ocrEditing, fmVars, rankVars, scoreVars>>

\* OcrProcessor.jsx:38, 78-111: createWorker throws; catch sets the error,
\* finally finds no worker and clears the flags; the error is rethrown
OcrWorkerFailed(t, msg) ==
    /\ ocrTasks[t].pc = "createWorker"
    /\ ocrTasks' = [ocrTasks EXCEPT ![t] =
           IF IsCurrentOcr(t)
           THEN [ocrTasks[t] EXCEPT !.pc = "rejected", !.threw = TRUE]
           ELSE GoneTask]
    /\ ocrError' = IF IsCurrentOcr(t) THEN UserMessage(msg) ELSE ocrError
    /\ OcrFinally(t)
    /\ UNCHANGED <<currentStep, uploadedImage, croppedImage, extractedText,
                   fontMatches>>
    /\ UNCHANGED <<apiKeySet, ocrInst, ocrText, ocrEditing, fmVars, rankVars, scoreVars>>

\* OcrProcessor.jsx:60-77: recognize resolves with { text, confidence }
OcrRecognized(t, text, confidence) ==
    /\ ocrTasks[t].pc = "recognize"
    /\ IF text = <<>>
       THEN \* throw new Error('No text was recognized in the image'); catch
            /\ ocrTasks' = [ocrTasks EXCEPT ![t].pc = "terminate", ![t].threw = TRUE]
            /\ ocrError' = IF IsCurrentOcr(t) THEN UserMessage(MsgNoText) ELSE ocrError
            /\ UNCHANGED ocrText
       ELSE /\ ocrTasks' = [ocrTasks EXCEPT ![t].pc = "terminate"]
            /\ ocrText' = IF IsCurrentOcr(t) THEN CleanText(text) ELSE ocrText
            /\ ocrError' = IF IsCurrentOcr(t) /\ confidence < LowConfidence
                           THEN LowConfidenceMessage ELSE ocrError
    /\ UNCHANGED <<appVars, apiKeySet, ocrInst, ocrLocal, ocrEditing, fmVars,
                   rankVars, scoreVars>>

\* OcrProcessor.jsx:60, 78-106: recognize throws; catch sets the error and
\* finally awaits worker.terminate()
OcrRecognizeFailed(t, msg) ==
    /\ ocrTasks[t].pc = "recognize"
    /\ ocrTasks' = [ocrTasks EXCEPT ![t].pc = "terminate", ![t].threw = TRUE]
    /\ ocrError' = IF IsCurrentOcr(t) THEN UserMessage(msg) ELSE ocrError
    /\ UNCHANGED <<appVars, apiKeySet, ocrInst, ocrText, ocrLocal, ocrEditing,
                   fmVars, rankVars, scoreVars>>

\* OcrProcessor.jsx:104-110: worker.terminate() resolves; the flags are cleared
OcrTerminated(t) ==
    /\ ocrTasks[t].pc = "terminate"
    /\ ocrTasks' = [ocrTasks EXCEPT ![t] =
           IF IsCurrentOcr(t)
           THEN [ocrTasks[t] EXCEPT
                    !.pc = IF ocrTasks[t].threw THEN "rejected" ELSE "resolved",
                    !.worker = FALSE]
           ELSE GoneTask]
    /\ OcrFinally(t)
    /\ UNCHANGED <<currentStep, uploadedImage, croppedImage, extractedText,
                   fontMatches>>
    /\ UNCHANGED <<apiKeySet, ocrInst, ocrText, ocrError, ocrEditing, fmVars,
                   rankVars, scoreVars>>

\* OcrProcessor.jsx:126-128 and 206-214: the Retry button
Retry ==
    /\ OcrMounted
    /\ ocrError # NULL
    /\ ~ocrLocal
    /\ Len(ocrTasks) + Len(fm) < MaxRuns
    /\ StartOCR(ocrInst)
    /\ UNCHANGED <<currentStep, uploadedImage, croppedImage, extractedText,
                   fontMatches>>
    /\ UNCHANGED <<apiKeySet, ocrInst, ocrText, ocrEditing, fmVars, rankVars, scoreVars>>

\* OcrProcessor.jsx:178-183: the Edit / Preview toggle
ToggleEditing ==
    /\ OcrMounted
    /\ ocrText # <<>>
    /\ ocrEditing' = ~ocrEditing
    /\ UNCHANGED <<appVars, apiKeySet, ocrInst, ocrText, ocrError, ocrLocal,
                   ocrTasks, fmVars, rankVars, scoreVars>>

\* texts the user can type into the textarea
EditTexts == { <<>>, <<SP>>, <<"b", NL, "c", SP>> }

\* OcrProcessor.jsx:114-116 and 186-193: typing in the textarea
handleTextChange(value) ==
    /\ OcrMounted
    /\ ocrText # <<>>
    /\ ocrEditing
    /\ ocrText' = value
    /\ UNCHANGED <<appVars, apiKeySet, ocrInst, ocrError, ocrLocal, ocrEditing,
                   ocrTasks, fmVars, rankVars, scoreVars>>

(***************************************************************************)
(* FontMatcher (src/unnamed/part_006).  fm[i] is the i-th mounted          *)
(* instance: its state, its ref and the position of its async functions.   *)
(***************************************************************************)
BatchSize == 10

\* fontUtils.js:12-37: what the canvas draws for `${weight} 48px ${family}`:
\* the family's glyphs when its resource is available, the browser's default
\* font otherwise
RenderedFace(font, avail) ==
    IF font.family \in avail THEN <<font.family, font.weight>>
    ELSE <<"default", font.weight>>

\* fontUtils.js:45-82: the similarity of the reference image and a rendered
\* face.  Rendering and scoring are deterministic, so equal faces get equal
\* similarities; the values are those of one reference image.
SimilarityOfFace(face) ==
    IF face[1] = "default" THEN 4000
    ELSE IF face[2] = 400 THEN 9240 ELSE 8100

Similarity(font, avail) == SimilarityOfFace(RenderedFace(font, avail))

\* part_006:16-22: the state of a freshly mounted FontMatcher
NewMatcher ==
    [fetchPc |-> "fetching", availableFonts |-> <<>>,
     loadPc |-> "idle", loadBatch |-> 0, fontsLoaded |-> FALSE,
     matchingStarted |-> FALSE, matchPc |-> "idle", pos |-> LoopStart,
     matches |-> <<>>, testedCount |-> 0,
     progress |-> 0, currentFont |-> <<>>, fontsTestedCount |-> 0]

\* part_006:66: the guard of the font loading effect
LoadEffectEnabled(fonts, text, image) ==
    Len(fonts) > 0 /\ text # <<>> /\ image # NULL

\* a guard that does not wait for fontsLoaded
MatchEffectEnabled_NoBarrier(rec, text, image) ==
    /\ text # <<>>
    /\ image # NULL
    /\ ~rec.matchingStarted
    /\ Len(rec.availableFonts) > 0

\* part_006:104-105: the guard of the effect that starts the matching
MatchEffectEnabled(rec, text, image) ==
    /\ rec.fontsLoaded
    /\ text # <<>>
    /\ image # NULL
    /\ ~rec.matchingStarted
    /\ Len(rec.availableFonts) > 0

\* part_006:127-139: performFontMatching up to its first await
StartMatching(rec) ==
    [rec EXCEPT !.matchingStarted = TRUE, !.matchPc = "refCanvas"]

\* part_006:103-118: the effect that starts the matching, run after a commit
\* of the state it depends on
MatchEffect(rec, text, image) ==
    IF MatchEffectEnabled(rec, text, image) THEN StartMatching(rec) ELSE rec

\* part_006:30/50/54 and 65-118: setAvailableFonts(fonts) in a mounted
\* instance whose fetchGoogleFonts returns at `how`, and the effects the new
\* list triggers
CommitFonts(rec, how, fonts, text, image) ==
    MatchEffect([rec EXCEPT !.fetchPc = how,
                            !.availableFonts = fonts,
                            !.loadPc = IF LoadEffectEnabled(fonts, text, image)
                                       THEN "loading" ELSE rec.loadPc,
                            !.loadBatch = 0],
                text, image)

\* part_006:132: performFontMatching has been called in the step from old to
\* new and has set the App's flag
MatchingBegun(old, new) == old.matchPc = "idle" /\ new.matchPc = "refCanvas"

\* part_006:42-59: a body without items makes data.items.slice throw, and
\* the catch block stores the built-in list
FetchedFonts(data) ==
    IF "items" \in DOMAIN data THEN FontsOfResponse(data) ELSE FallbackFonts

FetchOutcome(data) == IF "items" \in DOMAIN data THEN "done" ELSE "caught"

\* An unmounted FontMatcher exists only through its async functions that
\* have not returned: fetchGoogleFonts, loadAllFonts, performFontMatching.
Gone == [NewMatcher EXCEPT !.fetchPc = "gone", !.matchPc = "gone"]

HasContinuation(rec) ==
    \/ rec.fetchPc = "fetching"
    \/ rec.loadPc = "loading"
    \/ rec.matchPc \in {"refCanvas", "timer"}

Unmounted(rec) == IF HasContinuation(rec) THEN rec ELSE Gone

\* the instances that remain when no FontMatcher is rendered
MatchersPending(insts) == [i \in DOMAIN insts |-> Unmounted(insts[i])]

\* a guard that accepts any text the textarea shows, trimmed or not
ConfirmEnabled_NoTrim ==
    /\ OcrMounted
    /\ ocrText # <<>>
    /\ ~ocrLocal

\* OcrProcessor.jsx:119-123 and 216-222: the guard of handleConfirm behind
\* the enabled "Find Matching Fonts" button
ConfirmEnabled ==
    /\ OcrMounted
    /\ Trim(ocrText) # <<>>
    /\ ~ocrLocal

\* handleConfirm -> App.handleOcrComplete; OcrProcessor unmounts, FontMatcher
\* mounts and its first effect calls fetchGoogleFonts (part_006:24-63)
Confirm ==
    /\ ConfirmEnabled
    /\ Len(ocrTasks) + Len(fm) < MaxRuns
    /\ handleOcrComplete(Trim(ocrText))
    /\ OcrUnmount
    /\ matcher' = Len(fm) + 1
    /\ LET rec == IF apiKeySet THEN NewMatcher
                  ELSE CommitFonts(NewMatcher, "nokey", FallbackFonts,
                                   Trim(ocrText), croppedImage)
       IN  /\ fm' = Append(fm, rec)
           /\ isProcessing' = (MatchingBegun(NewMatcher, rec) \/ isProcessing)
    /\ ocrTasks' = OcrPending(ocrTasks)
    /\ UNCHANGED <<uploadedImage, croppedImage, fontMatches>>
    /\ UNCHANGED <<apiKeySet, fontsAvail, rankVars, scoreVars>>

\* App.jsx:73-81: the Start Over button
Reset ==
    /\ currentStep > 1
    /\ resetApp
    /\ OcrUnmount
    /\ ocrTasks' = OcrPending(ocrTasks)
    /\ matcher' = 0
    /\ fm' = MatchersPending(fm)
    /\ UNCHANGED <<apiKeySet, fontsAvail, rankVars, scoreVars>>

\* part_006:39-50: fetch and response.json() resolve with the body data
FetchResolved(i, data) ==
    /\ fm[i].fetchPc = "fetching"
    /\ LET rec == IF matcher = i
                  THEN CommitFonts(fm[i], FetchOutcome(data), FetchedFonts(data),
                                   extractedText, croppedImage)
                  ELSE Gone
       IN  /\ fm' = [fm EXCEPT ![i] = rec]
           /\ isProcessing' = (MatchingBegun(fm[i], rec) \/ isProcessing)
    /\ UNCHANGED <<currentStep, uploadedImage, croppedImage, extractedText,
                   fontMatches>>
    /\ UNCHANGED <<apiKeySet, ocrVars, matcher, fontsAvail, rankVars, scoreVars>>

\* part_006:51-59: fetch or response.json() rejects
FetchRejected(i) ==
    /\ fm[i].fetchPc = "fetching"
    /\ LET rec == IF matcher = i
                  THEN CommitFonts(fm[i], "caught", FallbackFonts,
                                   extractedText, croppedImage)
                  ELSE Gone
       IN  /\ fm' = [fm EXCEPT ![i] = rec]
           /\ isProcessing' = (MatchingBegun(fm[i], rec) \/ isProcessing)
    /\ UNCHANGED <<currentStep, uploadedImage, croppedImage, extractedText,
                   fontMatches>>
    /\ UNCHANGED <<apiKeySet, ocrVars, matcher, fontsAvail, rankVars, scoreVars>>

\* part_006:70: the families of the batch being loaded
BatchFamilies(rec) ==
    LET last == IF rec.loadBatch + BatchSize < Len(rec.availableFonts)
                THEN rec.loadBatch + BatchSize ELSE Len(rec.availableFonts)
    IN  {rec.availableFonts[k].name : k \in (rec.loadBatch + 1)..last}

\* the families WebFont.load may get: all of the batch, none of it
\* (inactive), or all but its first one (fontinactive for that one)
LoadOutcomes(rec) ==
    IF rec.loadPc # "loading" THEN {}
    ELSE {BatchFamilies(rec), {},
          BatchFamilies(rec) \ {rec.availableFonts[rec.loadBatch + 1].name}}

\* part_006:76-96: WebFont.load of the current batch calls active or
\* inactive; then the next batch is requested or fontsLoaded is set, which
\* runs the effect that starts the matching (part_006:103-118)
FontBatchLoaded(i, loaded) ==
    /\ fm[i].loadPc = "loading"
    /\ loaded \in LoadOutcomes(fm[i])
    /\ fontsAvail' = fontsAvail \cup loaded
    /\ IF fm[i].loadBatch + BatchSize < Len(fm[i].availableFonts)
       THEN /\ fm' = [fm EXCEPT ![i].loadBatch = fm[i].loadBatch + BatchSize]
            /\ UNCHANGED isProcessing
       ELSE LET rec == IF matcher = i
                       THEN MatchEffect([fm[i] EXCEPT !.loadPc = "done",
                                                      !.fontsLoaded = TRUE],
                                        extractedText, croppedImage)
                       ELSE Unmounted([fm[i] EXCEPT !.loadPc = "done"])
            IN  /\ fm' = [fm EXCEPT ![i] = rec]
                /\ isProcessing' = (MatchingBegun(fm[i], rec) \/ isProcessing)
    /\ UNCHANGED <<currentStep, uploadedImage, croppedImage, extractedText,
                   fontMatches>>
    /\ UNCHANGED <<apiKeySet, ocrVars, matcher, rankVars, scoreVars>>

\* part_006:193/197 and 198-200: onMatchingComplete(result), then finally.
\* App moves to step 5, so neither FontMatcher nor OcrProcessor is rendered.
MatchComplete(i, rec, result) ==
    /\ handleFontMatchingComplete(result)
    /\ fm' = [j \in DOMAIN fm |->
              IF j = i THEN (IF matcher = i THEN rec ELSE Gone)
              ELSE Unmounted(fm[j])]
    /\ matcher' = 0
    /\ OcrUnmount
    /\ ocrTasks' = OcrPending(ocrTasks)
    /\ UNCHANGED <<uploadedImage, croppedImage, extractedText>>
    /\ UNCHANGED <<apiKeySet, fontsAvail, rankVars, scoreVars>>

\* part_006:149-158: the state set before the candidate at position k of the
\* loops, font, is rendered
BeforeRender(i, k, font) ==
    LET rec == fm[i]
    IN  IF matcher = i
        THEN [rec EXCEPT !.pos = k,
                         !.testedCount = rec.testedCount + 1,
                         !.currentFont = font.name,
                         !.fontsTestedCount = rec.testedCount + 1,
                         !.progress = Progress(rec.testedCount + 1, rec.availableFonts)]
        ELSE [rec EXCEPT !.pos = k, !.testedCount = rec.testedCount + 1]

\* part_006:161-170: the candidate is rendered and compared with the
\* reference, and the match is built
Scored(font, avail) ==
    [name |-> font.name, family |-> font.family, weight |-> font.weight,
     similarity |-> Similarity(font, avail),
     previewCanvas |-> RenderedFace(font, avail)]

\* part_006:144-200: the body of performFontMatching from one await to the
\* next.  throws: renderTextToCanvas or compareCanvasText throws for the next
\* candidate.
MatchContinue(i, throws) ==
    \E later \in {TestedAfter(fm[i].availableFonts, fm[i].pos)} :
    \E k \in {FirstPosition(later)} :
        IF k = LoopEnd
        THEN \* matches.sort(...) sorts in place; topMatches = matches.slice(0, 3)
             \E sorted \in {SortBySimilarity(fm[i].matches)} :
                 MatchComplete(i,
                     [fm[i] EXCEPT !.matchPc = "completed", !.matches = sorted],
                     Slice(sorted, TopN))
        ELSE \E font \in {FontToTest(fm[i].availableFonts[k[1]],
                                      fm[i].availableFonts[k[1]].weights[k[2]])} :
             IF throws
             THEN MatchComplete(i,
                      [BeforeRender(i, k, font) EXCEPT !.matchPc = "caught"], <<>>)
             ELSE /\ fm' = [fm EXCEPT ![i] =
                         [BeforeRender(i, k, font) EXCEPT
                             !.matchPc = "timer",
                             !.matches = Append(fm[i].matches, Scored(font, fontsAvail))]]
                  /\ UNCHANGED <<appVars, apiKeySet, ocrVars, matcher, fontsAvail,
                                 rankVars, scoreVars>>

\* part_006:204-216: img.onload resolves createReferenceCanvas
RefCanvasLoaded(i, throws) ==
    /\ fm[i].matchPc = "refCanvas"
    /\ MatchContinue(i, throws)

\* part_006:204-218: the image fails to load; there is no onerror handler, so
\* the promise never settles
RefCanvasError(i) ==
    /\ fm[i].matchPc = "refCanvas"
    /\ fm' = [fm EXCEPT ![i] =
           IF matcher = i THEN [fm[i] EXCEPT !.matchPc = "hung"] ELSE Gone]
    /\ UNCHANGED <<appVars, apiKeySet, ocrVars, matcher, fontsAvail, rankVars, scoreVars>>

\* part_006:173: the 10 ms timer of the loop fires
TimerFired(i, throws) ==
    /\ fm[i].matchPc = "timer"
    /\ MatchContinue(i, throws)

(***************************************************************************)
(* fontUtils.js: compareCanvasText.  A canvas is a row of pixels           *)
(* <<r, g, b, a>>; the 400 x 400 grid both canvases are resized to is a    *)
(* row of ResizedCells pixels.  The arithmetic is exact: a grey level is   *)
(* kept as the sum of the three channels (3 * gray) and the score is in    *)
(* hundredths, as everywhere in this module.                               *)
(***************************************************************************)
\* number of pixels of a resized canvas
ResizedCells == 2

\* fontUtils.js:102 and 54-55: a pixel drawn on the transparent canvas and
\* read back by getImageData; a fully transparent pixel reads as 0, 0, 0, 0
DrawnPixel(p) == IF p[4] = 0 THEN <<0, 0, 0, 0>> ELSE p

\* fontUtils.js:91-105: the canvas scaled to `cells` pixels
resizeCanvas(canvas, cells) ==
    [k \in 1..cells |-> DrawnPixel(canvas[((k - 1) * Len(canvas)) \div cells + 1])]

\* fontUtils.js:69-70: 3 * gray
Gray3(p) == p[1] + p[2] + p[3]

Abs(x) == IF x < 0 THEN -x ELSE x

\* fontUtils.js:64-75: 3 * 255 * totalDifference over the first n pixels
RECURSIVE TotalDifference(_, _, _)
TotalDifference(data1, data2, n) ==
    IF n = 0 THEN 0
    ELSE TotalDifference(data1, data2, n - 1)
         + Abs(Gray3(data1[n]) - Gray3(data2[n]))

\* a rounding that truncates
RoundHundredths_Floor(num, den) == (100 * num) \div den

\* Math.round(x * 100) for x = num / den >= 0, in hundredths
RoundHundredths(num, den) == (2 * 100 * num + den) \div (2 * den)

\* a score that reports the average difference instead of the similarity
compareCanvasText_Difference(c1, c2) ==
    LET total == TotalDifference(resizeCanvas(c1, ResizedCells),
                                 resizeCanvas(c2, ResizedCells), ResizedCells)
    IN  RoundHundredths(100 * total, 3 * 255 * ResizedCells)

\* a score that counts only the pixels where the first canvas is lighter
compareCanvasText_OneSided(c1, c2) ==
    LET resized1 == resizeCanvas(c1, ResizedCells)
        resized2 == resizeCanvas(c2, ResizedCells)
        lighter == [k \in 1..ResizedCells |->
                       IF Gray3(resized1[k]) > Gray3(resized2[k])
                       THEN resized1[k] ELSE resized2[k]]
        total == TotalDifference(lighter, resized2, ResizedCells)
        den == 3 * 255 * ResizedCells
    IN  RoundHundredths(100 * (den - total), den)

\* a score whose total difference starts again from 0 at one full pixel
compareCanvasText_Wrapped(c1, c2) ==
    LET total == TotalDifference(resizeCanvas(c1, ResizedCells),
                                 resizeCanvas(c2, ResizedCells), ResizedCells)
        den == 3 * 255 * ResizedCells
    IN  RoundHundredths(100 * (den - (total % (3 * 255))), den)

\* fontUtils.js:45-82: similarity = max(0, (1 - totalDifference / pixelCount)
\* * 100), rounded to two decimals
compareCanvasText(c1, c2) ==
    LET resized1 == resizeCanvas(c1, ResizedCells)
        resized2 == resizeCanvas(c2, ResizedCells)
        total == TotalDifference(resized1, resized2, ResizedCells)
        pixelCount == ResizedCells
        den == 3 * 255 * pixelCount
    IN  IF den - total < 0 THEN 0
        ELSE RoundHundredths(100 * (den - total), den)

\* no comparison is set up
ScoreIdle ==
    /\ canvas1 = <<>>
    /\ canvas2 = <<>>
    /\ score12 = <<>>
    /\ score21 = <<>>

(***************************************************************************)
(* The application.                                                        *)
(***************************************************************************)
InitApp ==
    /\ currentStep = 1
    /\ uploadedImage = NULL
    /\ croppedImage = NULL
    /\ extractedText = <<>>
    /\ fontMatches = <<>>
    /\ isProcessing = FALSE
    /\ apiKeySet \in BOOLEAN
    /\ fontsAvail = {}
    /\ ocrInst = 0
    /\ ocrText = <<>>
    /\ ocrError = NULL
    /\ ocrLocal = FALSE
    /\ ocrEditing = FALSE
    /\ ocrTasks = <<>>
    /\ matcher = 0
    /\ fm = <<>>
    /\ rankIn = <<>>
    /\ rankOut = <<>>

Init == InitApp /\ ScoreIdle

Next ==
    \/ \E img \in Images : Upload(img)
    \/ \E url \in Images : Crop(url)
    \/ \E t \in DOMAIN ocrTasks : OcrWorkerCreated(t)
    \/ \E t \in DOMAIN ocrTasks, msg \in ThrownMessages : OcrWorkerFailed(t, msg)
    \/ \E t \in DOMAIN ocrTasks, text \in OcrTexts, c \in Confidences :
          OcrRecognized(t, text, c)
    \/ \E t \in DOMAIN ocrTasks, msg \in ThrownMessages : OcrRecognizeFailed(t, msg)
    \/ \E t \in DOMAIN ocrTasks : OcrTerminated(t)
    \/ Retry
    \/ ToggleEditing
    \/ \E value \in EditTexts : handleTextChange(value)
    \/ Confirm
    \/ Reset
    \/ \E i \in DOMAIN fm, data \in Responses : FetchResolved(i, data)
    \/ \E i \in DOMAIN fm : FetchRejected(i)
    \/ \E i \in DOMAIN fm : \E loaded \in LoadOutcomes(fm[i]) : FontBatchLoaded(i, loaded)
    \/ \E i \in DOMAIN fm, throws \in BOOLEAN : RefCanvasLoaded(i, throws)
    \/ \E i \in DOMAIN fm : RefCanvasError(i)
    \/ \E i \in DOMAIN fm, throws \in BOOLEAN : TimerFired(i, throws)

Spec == Init /\ [][Next]_vars

(***************************************************************************)
(* Scheduling: a pending WebFont.load callback, a pending image event and  *)
(* a pending timer are eventually run by the browser's event loop.         *)
(***************************************************************************)
LoadStep == \E i \in DOMAIN fm : \E loaded \in LoadOutcomes(fm[i]) : FontBatchLoaded(i, loaded)
ImageStep ==
    \E i \in DOMAIN fm :
        \/ \E throws \in BOOLEAN : RefCanvasLoaded(i, throws)
        \/ RefCanvasError(i)
TimerStep == \E i \in DOMAIN fm, throws \in BOOLEAN : TimerFired(i, throws)

LiveSpec ==
    /\ Init
    /\ [][Next]_vars
    /\ WF_vars(LoadStep)
    /\ WF_vars(ImageStep)
    /\ WF_vars(TimerStep)

(***************************************************************************)
(* The ranking step on its own: any matches array the loop can build, in   *)
(* catalog order, then the sort and slice of part_006:179-181.             *)
(***************************************************************************)
MaxRankLen == 4
RankScores == {4000, 8100, 9240}

\* part_006:166-170: the match pushed for the k-th candidate of the catalog
RankMatch(k, similarity) ==
    [name |-> <<LongNames[k], V_400>>, family |-> LongNames[k], weight |-> 400,
     similarity |-> similarity, previewCanvas |-> <<LongNames[k], 400>>]

InitRank == Init /\ apiKeySet

\* part_006:166: matches.push(...) for the next candidate
RankPush(similarity) ==
    /\ rankOut = <<>>
    /\ Len(rankIn) < MaxRankLen
    /\ rankIn' = Append(rankIn, RankMatch(Len(rankIn) + 1, similarity))
    /\ UNCHANGED <<appVars, apiKeySet, ocrVars, fmVars, rankOut, scoreVars>>

\* part_006:179-181: the ranking of the array; rankOut holds the result
RankNow ==
    /\ rankOut = <<>>
    /\ rankOut' = <<TopMatches(rankIn)>>
    /\ UNCHANGED <<appVars, apiKeySet, ocrVars, fmVars, rankIn, scoreVars>>

NextRank ==
    \/ \E similarity \in RankScores : RankPush(similarity)
    \/ RankNow

SpecRank == InitRank /\ [][NextRank]_vars

\* the position of a match in the array it was pushed to
CatalogPos(m, matches) == CHOOSE p \in 1..Len(matches) : matches[p] = m

Ranked == rankOut # <<>>
RankResult == rankOut[1]
InResult(m) == \E a \in 1..Len(RankResult) : RankResult[a] = m

\* m is ranked before n: higher similarity, or equal similarity and earlier
\* in the catalog
RankedBefore(m, n) ==
    \/ m.similarity > n.similarity
    \/ /\ m.similarity = n.similarity
       /\ CatalogPos(m, rankIn) < CatalogPos(n, rankIn)

\* C7: the result of the ranking is ordered by similarity descending, two
\* matches of equal similarity appear in their catalog order, and a match
\* left out is ranked after every match of the result.
C7_StableDescending ==
    Ranked =>
        /\ \A a, b \in 1..Len(RankResult) :
              a < b => RankedBefore(RankResult[a], RankResult[b])
        /\ \A p \in 1..Len(rankIn) :
              ~InResult(rankIn[p]) =>
                  \A a \in 1..Len(RankResult) : RankedBefore(RankResult[a], rankIn[p])

\* scores B = 92.4, A = 92.4, C = 81.0, D = 40.0 in catalog order B, A, C, D
\* have been ranked as B, A, C
C7_Witness ==
    /\ Ranked
    /\ [p \in 1..Len(rankIn) |-> rankIn[p].similarity] = <<9240, 9240, 8100, 4000>>
    /\ RankResult = SubSeq(rankIn, 1, 3)

\* C8 as stated: at most 3 elements, strictly descending by similarity, all
\* of them elements of the input.
C8_StrictlyDescending ==
    Ranked =>
        /\ Len(RankResult) <= 3
        /\ \A a \in 1..(Len(RankResult) - 1) :
              RankResult[a].similarity > RankResult[a + 1].similarity
        /\ \A a \in 1..Len(RankResult) :
              \E p \in 1..Len(rankIn) : rankIn[p] = RankResult[a]

\* C8: the result of the ranking has at most 3 elements, is non-increasing
\* by similarity (equal similarities stay next to each other), and every
\* element of it is an element of the input.
C8_AtMostThreeNonIncreasing ==
    Ranked =>
        /\ Len(RankResult) <= 3
        /\ \A a \in 1..(Len(RankResult) - 1) :
              RankResult[a].similarity >= RankResult[a + 1].similarity
        /\ \A a \in 1..Len(RankResult) :
              \E p \in 1..Len(rankIn) : rankIn[p] = RankResult[a]

\* four matches with a tie among the best have been ranked: three are
\* returned and the first two have the same similarity
C8_Witness ==
    /\ Ranked
    /\ Len(rankIn) = 4
    /\ Len(RankResult) = 3
    /\ RankResult[1].similarity = RankResult[2].similarity
    /\ RankResult[2].similarity > RankResult[3].similarity

(***************************************************************************)
(* compareCanvasText on its own: any two canvases of up to MaxPixels       *)
(* pixels, compared in both orders.                                        *)
(***************************************************************************)
MaxPixels == 2

\* pixels <<r, g, b, a>>: white, black, red, green and transparent white
PixelValues ==
    { <<255, 255, 255, 255>>, <<0, 0, 0, 255>>, <<255, 0, 0, 255>>,
      <<0, 255, 0, 255>>, <<255, 255, 255, 0>> }

Canvases == UNION {[1..n -> PixelValues] : n \in 1..MaxPixels}

InitScore ==
    /\ InitApp
    /\ apiKeySet
    /\ canvas1 \in Canvases
    /\ canvas2 \in Canvases
    /\ score12 = <<>>
    /\ score21 = <<>>

\* compareCanvasText(canvas1, canvas2)
Compare ==
    /\ score12 = <<>>
    /\ score12' = <<compareCanvasText(canvas1, canvas2)>>
    /\ UNCHANGED <<appVars, apiKeySet, ocrVars, fmVars, rankVars, canvas1,
                   canvas2, score21>>

\* compareCanvasText(canvas2, canvas1)
CompareSwapped ==
    /\ score21 = <<>>
    /\ score21' = <<compareCanvasText(canvas2, canvas1)>>
    /\ UNCHANGED <<appVars, apiKeySet, ocrVars, fmVars, rankVars, canvas1,
                   canvas2, score12>>

NextScore == Compare \/ CompareSwapped

SpecScore == InitScore /\ [][NextScore]_vars

\* C19: a canvas compared with itself scores 100.
C19_SelfScoreIsHundred ==
    (canvas1 = canvas2 /\ score12 # <<>>) => score12[1] = 10000

\* a canvas of two different pixels has been compared with itself
C19_Witness ==
    /\ canvas1 = canvas2
    /\ Len(canvas1) = 2
    /\ canvas1[1] # canvas1[2]
    /\ score12 = <<10000>>

\* C20: compareCanvasText(canvas1, canvas2) and compareCanvasText(canvas2,
\* canvas1) are the same score.
C20_ScoreIsSymmetric ==
    (score12 # <<>> /\ score21 # <<>>) => score12[1] = score21[1]

\* two canvases of different sizes that differ have been compared in both
\* orders, with a score below 100
C20_Witness ==
    /\ Len(canvas1) # Len(canvas2)
    /\ score12 # <<>>
    /\ score21 # <<>>
    /\ score12[1] < 10000
    /\ score12[1] > 0

\* C21: the score is 100 exactly when the two resized canvases are equal
\* pixel by pixel, in every channel.
C21_HundredIffIdentical ==
    score12 # <<>> =>
        (score12[1] = 10000 <=>
            resizeCanvas(canvas1, ResizedCells) = resizeCanvas(canvas2, ResizedCells))

\* fontUtils.js:72: 3 * 255 * difference at each pixel of the resized canvases
GrayDifferences(resized1, resized2) ==
    [k \in 1..ResizedCells |-> Abs(Gray3(resized1[k]) - Gray3(resized2[k]))]

\* at every pixel the differences d3 are at least the differences d2
DiffersAtLeast(d3, d2) == \A k \in 1..ResizedCells : d3[k] >= d2[k]

\* C22: a canvas that differs from canvas1 at least as much as canvas2 does
\* at every pixel scores at most what canvas2 scores.
C22_ScoreIsMonotone ==
    score12 # <<>> =>
        LET resized1 == resizeCanvas(canvas1, ResizedCells)
            d2 == GrayDifferences(resized1, resizeCanvas(canvas2, ResizedCells))
        IN  \A c3 \in Canvases :
                DiffersAtLeast(
                    GrayDifferences(resized1, resizeCanvas(c3, ResizedCells)), d2)
                  => compareCanvasText(canvas1, c3) <= score12[1]

\* canvas2 differs from canvas1 and scores below 100, and another canvas
\* that differs more at some pixel and nowhere less scores strictly less
C22_Witness ==
    /\ score12 # <<>>
    /\ score12[1] < 10000
    /\ LET resized1 == resizeCanvas(canvas1, ResizedCells)
           d2 == GrayDifferences(resized1, resizeCanvas(canvas2, ResizedCells))
       IN  \E c3 \in Canvases :
              LET d3 == GrayDifferences(resized1, resizeCanvas(c3, ResizedCells))
              IN  /\ DiffersAtLeast(d3, d2)
                  /\ d3 # d2
                  /\ compareCanvasText(canvas1, c3) < score12[1]

\* fontUtils.js:60-78: 3 * 255 * pixelCount * averageDifference
AvgDiffNumerator(c1, c2) ==
    TotalDifference(resizeCanvas(c1, ResizedCells),
                    resizeCanvas(c2, ResizedCells), ResizedCells)

InLoop(rec) == rec.matchPc \in {"refCanvas", "timer"}

\* performFontMatching of the instance rec has called onMatchingComplete
\* while the instance was rendered
Ended(rec) == rec.matchPc \in {"completed", "caught"}

\* the step runs a continuation of performFontMatching of an instance that
\* is no longer rendered
StaleMatcherStep(i) == matcher # i /\ InLoop(fm[i]) /\ fm'[i] # fm[i]

\* the step runs a continuation of a performOCR whose OcrProcessor is no
\* longer rendered
StaleOcrStep(t) == ~IsCurrentOcr(t) /\ ocrTasks'[t] # ocrTasks[t]

\* C1: a step of a performFontMatching that was in flight when resetApp ran
\* changes nothing of the App: currentStep, fontMatches, extractedText,
\* croppedImage and isProcessing keep their values.
C1_StaleCompletionIsNoOp ==
    [][\A i \in DOMAIN fm :
          StaleMatcherStep(i) =>
              UNCHANGED <<currentStep, fontMatches, extractedText, croppedImage,
                          isProcessing>>]_vars

\* C2: a step of a performOCR that was pending when resetApp ran or a new
\* region was submitted changes neither the App's isProcessing nor the error
\* nor the extracted text of the current run.
C2_StaleOcrIsNoOp ==
    [][\A t \in DOMAIN ocrTasks :
          StaleOcrStep(t) => UNCHANGED <<isProcessing, ocrError, ocrText>>]_vars

\* C3: a run that has ended has gone through every candidate of the catalog
\* and has handed over the ranking of the candidates it scored, whether or not
\* rendering or scoring threw for one of them.
C3_FailureIsIsolated ==
    \A i \in DOMAIN fm :
        Ended(fm[i]) =>
            /\ NextTested(fm[i].availableFonts, fm[i].pos) = LoopEnd
            /\ fontMatches = TopMatches(fm[i].matches)

\* C4: every candidate the loop has rendered and scored is of a family whose
\* font resource is available.
C4_OnlyLoadedFontsRendered ==
    \A i \in DOMAIN fm :
        \A k \in 1..Len(fm[i].matches) : fm[i].matches[k].family \in fontsAvail

\* the catalog has been stored, every batch of it has been requested and has
\* answered, and fontsLoaded is set
Barrier(rec) ==
    /\ rec.fetchPc \in {"done", "caught", "nokey"}
    /\ Len(rec.availableFonts) > 0
    /\ rec.loadPc = "done"
    /\ rec.loadBatch + BatchSize >= Len(rec.availableFonts)
    /\ rec.fontsLoaded

\* C5: performFontMatching has started, or has rendered a candidate, only in
\* an instance whose catalog has been obtained and whose fontsLoaded has been
\* set after the last load batch.
C5_RenderAfterBarrier ==
    \A i \in DOMAIN fm :
        (fm[i].matchPc \notin {"idle", "gone"} \/ fm[i].testedCount > 0)
            => Barrier(fm[i])

\* a catalog of two load batches has been loaded and a candidate rendered
C5_Witness ==
    \E i \in DOMAIN fm :
        /\ Len(fm[i].availableFonts) > BatchSize
        /\ fm[i].loadBatch = BatchSize
        /\ fm[i].testedCount > 0
        /\ fm[i].matchPc = "timer"

\* fetchGoogleFonts of the instance rec ended without a catalog: no API key,
\* or the catch block ran
CatalogFailed(rec) == rec.fetchPc \in {"caught", "nokey"}

\* C6: after a catalog failure the candidate list is the built-in list, which
\* has at least one font; and from then on, when pending callbacks are run,
\* App reaches step 5 unless the user starts over (step 1) or the region
\* image never loads.
C6_FallbackCompletes ==
    /\ [](\A i \in DOMAIN fm :
             CatalogFailed(fm[i]) =>
                 /\ fm[i].availableFonts = FallbackFonts
                 /\ Len(fm[i].availableFonts) >= 1)
    /\ (matcher # 0 /\ CatalogFailed(fm[matcher]))
           ~> \/ currentStep \in {1, 5}
              \/ matcher # 0 /\ fm[matcher].matchPc = "hung"

\* a fetch that was caught has been followed by a completed run with three
\* matches of the built-in list
C6_Witness ==
    \E i \in DOMAIN fm :
        /\ fm[i].fetchPc = "caught"
        /\ fm[i].matchPc = "completed"
        /\ currentStep = 5
        /\ Len(fontMatches) = 3
        /\ \A k \in 1..3 : \E f \in 1..Len(FallbackFonts) :
              fontMatches[k].family = FallbackFonts[f].family

Min(a, b) == IF a < b THEN a ELSE b

\* C9: when a run has ended with n candidates scored, the matches handed to
\* App are exactly min(3, n).
C9_MinThreeOfScored ==
    \A i \in DOMAIN fm :
        Ended(fm[i]) => Len(fontMatches) = Min(TopN, Len(fm[i].matches))

\* C10: when a run has ended with no candidate scored, App is at step 5 with
\* an empty fontMatches and isProcessing false; the run has returned, not
\* thrown.
C10_EmptyResultCompletes ==
    \A i \in DOMAIN fm :
        (Ended(fm[i]) /\ fm[i].matches = <<>>) =>
            /\ currentStep = 5
            /\ fontMatches = <<>>
            /\ ~isProcessing

\* a catalog with italic variants only has been gone through without a
\* single candidate tested, and the run has completed
C10_Witness ==
    \E i \in DOMAIN fm :
        /\ fm[i].matchPc = "completed"
        /\ fm[i].availableFonts # <<>>
        /\ fm[i].testedCount = 0
        /\ fm[i].matches = <<>>
        /\ currentStep = 5
        /\ fontMatches = <<>>

(***************************************************************************)
(* Properties of extraction and confirmation.                              *)
(***************************************************************************)
HasNewline(s) == \E k \in 1..Len(s) : s[k] = NL

\* no leading or trailing whitespace and no newline
IsCleanText(s) ==
    s = <<>> \/ (~IsSpace(s[1]) /\ ~IsSpace(s[Len(s)]) /\ ~HasNewline(s))

\* C11: the text handed to App by handleConfirm, and by App to FontMatcher,
\* has no leading or trailing whitespace and no newline character, whatever
\* the OCR returned and whatever the user typed before confirming.
C11_ConfirmedTextIsClean == IsCleanText(extractedText)

\* C12: while the text of the OcrProcessor is empty after trimming, no step
\* calls onTextExtracted: App does not move to step 4 and its extractedText
\* keeps its value.
C12_EmptyConfirmRejected ==
    [][(OcrMounted /\ Trim(ocrText) = <<>>) =>
          (currentStep' # 4 /\ extractedText' = extractedText)]_vars

\* the user has replaced the recognized text by a blank, the extraction has
\* finished, and App is still at step 3 with nothing stored
C12_Witness ==
    /\ OcrMounted
    /\ ~ocrLocal
    /\ ocrEditing
    /\ ocrText = <<SP>>
    /\ currentStep = 3
    /\ extractedText = <<>>

\* the most recent performOCR call of the rendered OcrProcessor
LastOcr ==
    CHOOSE t \in DOMAIN ocrTasks :
        /\ ocrTasks[t].inst = ocrInst
        /\ \A u \in DOMAIN ocrTasks : ocrTasks[u].inst = ocrInst => u <= t

\* OcrProcessor.jsx:29-109: that call has not yet reached the end of finally
ExtractionInFlight == OcrMounted /\ ~OcrReturned(ocrTasks[LastOcr])

\* OcrProcessor.jsx:78-101: that call ended in the catch block
ExtractionFailed == OcrMounted /\ ocrTasks[LastOcr].pc = "rejected"

\* C13: while the extraction of the rendered OcrProcessor is in flight, or
\* after its most recent attempt (the first one or a retry) has failed, no
\* step moves App to step 4.
C13_ConfirmOnlyWhenExtracted ==
    [][(ExtractionInFlight \/ ExtractionFailed) => currentStep' # 4]_vars

\* OcrProcessor.jsx:88-100: the messages the catch block can set
FailureMessages == {UserMessage(msg) : msg \in ThrownMessages \cup {MsgNoText}}

\* C14: after a failed extraction attempt App is still at step 3 with the
\* failure message shown, and it stays so: the only steps that change this
\* are the user's Retry, which starts one new performOCR, and Start Over.
\* No other step starts an extraction or moves App to another step.
C14_FailedUntilRetryOrReset ==
    /\ [](ExtractionFailed => (currentStep = 3 /\ ocrError \in FailureMessages))
    /\ [][ExtractionFailed =>
             \/ currentStep' = 1
             \/ /\ Len(ocrTasks') = Len(ocrTasks) + 1
                /\ ocrTasks'[Len(ocrTasks')].inst = ocrInst
                /\ currentStep' = 3
             \/ /\ ExtractionFailed'
                /\ Len(ocrTasks') = Len(ocrTasks)
                /\ ocrError' = ocrError
                /\ currentStep' = 3]_vars

\* OcrProcessor.jsx:60-77: the rendered OcrProcessor shows a text that is not
\* blank, and no failure
TextExtracted ==
    OcrMounted /\ Trim(ocrText) # <<>> /\ ocrError \notin FailureMessages

\* OcrProcessor.jsx:78-101: the rendered OcrProcessor shows a failure
ExtractionErrorShown == OcrMounted /\ ocrError \in FailureMessages

\* the step in which the performOCR call t of the rendered OcrProcessor
\* reaches the end of its finally block
OcrFinishes(t) ==
    IsCurrentOcr(t) /\ ~OcrReturned(ocrTasks[t]) /\ OcrReturned(ocrTasks'[t])

\* C15: when an extraction attempt finishes, the OcrProcessor shows either a
\* text that is non-empty after normalization or an extraction failure, and
\* not both and not neither.
C15_TextOrError ==
    [][\A t \in DOMAIN ocrTasks :
          OcrFinishes(t) => (TextExtracted' /\ ~ExtractionErrorShown')
                            \/ (ExtractionErrorShown' /\ ~TextExtracted')]_vars

\* C16: when recognize returns a text that is not blank after cleaning, with
\* a confidence below 70 the cleaned text is stored together with the
\* low-confidence warning, and with a confidence of 70 or more it is stored
\* with no message at all; and whenever the warning is shown with a text and
\* the attempt has finished, the attempt has not failed, App is at step 3 and
\* the Find Matching Fonts button is enabled.
C16_LowConfidenceIsWarning ==
    /\ [][\A t \in DOMAIN ocrTasks : \A text \in OcrTexts : \A c \in Confidences :
             (/\ ocrTasks[t].pc = "recognize"
              /\ IsCurrentOcr(t)
              /\ CleanText(text) # <<>>
              /\ OcrRecognized(t, text, c))
                 => /\ ocrText' = CleanText(text)
                    /\ c < 70 => ocrError' = LowConfidenceMessage
                    /\ c >= 70 => ocrError' = NULL]_vars
    /\ []((OcrMounted /\ ocrError = LowConfidenceMessage /\ Trim(ocrText) # <<>>
             /\ ~ExtractionInFlight)
            => (~ExtractionFailed /\ currentStep = 3 /\ ConfirmEnabled))

\* an attempt has finished with a text and the low-confidence warning, and
\* the text can be confirmed
C16_Witness ==
    /\ OcrMounted
    /\ ocrTasks[LastOcr].pc = "resolved"
    /\ ocrError = LowConfidenceMessage
    /\ ocrText = <<"a">>
    /\ ConfirmEnabled

(***************************************************************************)
(* Properties of the orchestrator.                                         *)
(***************************************************************************)
\* App.jsx:16-21: the state App starts with
Idle ==
    /\ currentStep = 1
    /\ uploadedImage = NULL
    /\ croppedImage = NULL
    /\ extractedText = <<>>
    /\ fontMatches = <<>>
    /\ ~isProcessing

\* C17: at every step but the first the Start Over button can be pressed,
\* and at the first step App already is in its initial state; every step
\* that brings App back to step 1 leaves uploadedImage and croppedImage
\* null, extractedText and fontMatches empty and isProcessing false.
C17_ResetReturnsToIdle ==
    /\ [](currentStep > 1 => ENABLED Reset)
    /\ [](currentStep = 1 => Idle)
    /\ [][(currentStep # 1 /\ currentStep' = 1) => Idle']_vars

\* Start Over has been pressed at the results step of a run that had
\* extracted a text and produced matches
C17_Witness ==
    /\ Idle
    /\ Len(ocrTasks) > 0
    /\ \E i \in DOMAIN fm : fm[i].matchPc = "gone" /\ fm[i].fetchPc = "gone"

\* C18: every step that changes currentStep either goes back to step 1 or
\* advances by exactly one; croppedImage is set only in the step from 2 to
\* 3; and step 5 is entered only from step 4.
C18_StepOrder ==
    [][/\ currentStep' # currentStep =>
              (currentStep' = 1 \/ currentStep' = currentStep + 1)
       /\ (croppedImage' # croppedImage /\ croppedImage' # NULL) =>
              (currentStep = 2 /\ currentStep' = 3)
       /\ (currentStep' = 5 /\ currentStep # 5) => currentStep = 4]_vars

(***************************************************************************)
(* Properties of a matching run.                                           *)
(***************************************************************************)
\* part_006:161-170: the canvases the matches array of the run holds
RetainedSamples(rec) ==
    {k \in 1..Len(rec.matches) : "previewCanvas" \in DOMAIN rec.matches[k]}

\* C24: while performFontMatching runs, the rendered canvases it holds,
\* not counting the one of the current iteration, are never more than 3.
C24_SamplesNotRetained ==
    \A i \in DOMAIN fm :
        InLoop(fm[i]) => Cardinality(RetainedSamples(fm[i])) - 1 <= TopN

\* part_006:144-170: the positions of the tested candidates that have the
\* same family and the same weight as an earlier one
TestedTwice(rec) ==
    {k \in 1..Len(rec.matches) :
        \E j \in 1..(k - 1) :
            /\ rec.matches[j].family = rec.matches[k].family
            /\ rec.matches[j].weight = rec.matches[k].weight}

\* C25: within one matching run each (family, weight) pair is tested at most
\* once, for every catalog the provider can return, variant lists such as
\* '700' and '700italic' included.
C25_TestedAtMostOnce ==
    \A i \in DOMAIN fm : TestedTwice(fm[i]) = {}

\* C26: in every reachable state of App the step and the run data are
\* consistent: currentStep is in 1..5, a step of 3 or more has a cropped
\* image, a step of 4 or more has a non-empty extracted text, and fontMatches
\* is non-empty only in step 5.
C26_StepDataConsistent ==
    /\ currentStep \in 1..5
    /\ currentStep >= 3 => croppedImage # NULL
    /\ currentStep >= 4 => extractedText # <<>>
    /\ fontMatches # <<>> => currentStep = 5

\* part_006:24-60: the catalog request of the mounted matcher has settled
\* (resolved, rejected, or never sent because no API key is set)
CatalogSettled == matcher # 0 /\ fm[matcher].fetchPc # "fetching"

\* C27: once the text is confirmed and the matcher has started, then for
\* every outcome of the catalog fetch, of the font batches and of the region
\* image, and when pending callbacks and timers are run, onMatchingComplete
\* is eventually invoked: App leaves step 4 and isProcessing becomes false.
C27_MatchingTerminates ==
    CatalogSettled ~> (currentStep # 4 /\ ~isProcessing)

\* part_006:179-193: the step in which the mounted matcher i leaves the loops
\* and reports its result
RunCompletes(i) ==
    /\ matcher = i
    /\ InLoop(fm[i])
    /\ fm'[i].matchPc = "completed"

\* part_006:144-175: a step of the run of matcher i that stays in the run
RunStep(i) ==
    /\ InLoop(fm[i])
    /\ fm'[i].matchPc \in {"refCanvas", "timer", "completed", "caught"}

\* C28: during a matching run the reported progress percentage never
\* decreases, stays within [0, 100], and is 100 when the last candidate has
\* been processed and the run completes, also for catalogs with weight
\* variants that are skipped.
C28_ProgressReachesHundred ==
    /\ [](\A i \in DOMAIN fm : fm[i].progress \in 0..100)
    /\ [][\A i \in DOMAIN fm :
              /\ RunStep(i) => fm'[i].progress >= fm[i].progress
              /\ RunCompletes(i) => fm'[i].progress = 100]_vars

\* App.jsx:150-156: App renders ResultsDisplay
ResultsMounted == currentStep = 5 /\ Len(fontMatches) > 0

\* ResultsDisplay.jsx:212-225: the 'No Font Matches Found' notice is on screen
NoMatchesNotice == ResultsMounted /\ Len(fontMatches) = 0

\* C29: when matching has completed with an empty result, App in step 5
\* presents the results view, whose 'No Font Matches Found' notice is shown.
C29_EmptyResultShown ==
    (currentStep = 5 /\ fontMatches = <<>>) => NoMatchesNotice

\* ---------------------------------------------------------------------
\* Properties of an extraction attempt
\* ---------------------------------------------------------------------

\* OcrProcessor.jsx:102-110: the step in which the invocation t of performOCR
\* leaves its finally block
OcrAttemptEnds(t) ==
    /\ ocrTasks[t].pc \in {"createWorker", "terminate"}
    /\ OcrReturned(ocrTasks'[t])

\* C30: every started OCR attempt, whichever way it ends (text recognized, no
\* text recognized, worker creation or recognition throwing), finishes with
\* its worker terminated if one was created, and with the local processing
\* flag of its component and the isProcessing flag of App both false.
C30_AttemptCleansUp ==
    [][\A t \in DOMAIN ocrTasks :
          OcrAttemptEnds(t) =>
              /\ ~ocrTasks'[t].worker
              /\ ~isProcessing'
              /\ IsCurrentOcr(t) => ~ocrLocal']_vars

\* an attempt that threw has ended, and so has an attempt that created a
\* worker and recognized text; no flag is left set
C30_Witness ==
    /\ \E t \in DOMAIN ocrTasks : ocrTasks[t].pc = "rejected"
    /\ \E t \in DOMAIN ocrTasks : ocrTasks[t].pc = "resolved"
    /\ ~isProcessing
    /\ ~ocrLocal

====
